---- MODULE Spec2Model ----
(***************************************************************************)
(* A model of src/src/azure_blob_filesystem.cpp: the Azure blob file       *)
(* system of the DuckDB azure extension.  A file handle with its           *)
(* read-ahead buffer, the per-account storage context registry, the glob   *)
(* translation with its segment matcher, and the translation of failures.  *)
(*                                                                         *)
(* Strings are sequences of one-character tokens.  idx_t is an unsigned    *)
(* machine word; arithmetic on it is taken modulo IdxModulus.              *)
(***************************************************************************)
EXTENDS Integers, Sequences, FiniteSets, TLC

\* ------------------------------------------------------------------------
\* Bounds of the model
\* ------------------------------------------------------------------------
MaxLen == 3          \* longest blob, in bytes
MaxBuf == 2          \* largest azure_read_buffer_size setting
MaxCtx == 3          \* storage contexts created in one behaviour
MaxLog == 3          \* accesses remembered in the access log
MaxPage == 2         \* largest page of a listing
MaxBlobs == 3        \* most blobs in the listed container
MaxSegs == 3         \* most segments of a key or a pattern given to Match
MaxEpoch == 2        \* most QueryEnd rounds in one behaviour
MaxPartial == 1      \* most bytes a failing download has written

\* idx_t is uint64_t.  The model checker's integers are 32 bits wide, so the
\* word is modelled 30 bits wide; every quantity of the model is far below
\* it, and a wrapped difference is far above every such quantity, as for
\* the 64-bit word.
IdxModulus == 1073741824

\* Byte values.  A blob's bytes are nonzero; memory that was allocated and
\* never written holds a value no blob holds, so that a copy of it shows.
JunkBytes == {0}
Unset == 9           \* a byte of the caller's buffer that no read has written

SubIdx(a, b) == (a - b + IdxModulus) % IdxModulus
AddIdx(a, b) == (a + b) % IdxModulus
MinValue(a, b) == IF a < b THEN a ELSE b

\* ------------------------------------------------------------------------
\* State
\* ------------------------------------------------------------------------
VARIABLES
    blob,              \* the blob held by the storage service
    settings,          \* the host's settings read through the FileOpener
    registered_state,  \* client_context->registered_state: account -> context
    next_id,           \* identity given to the next context instance
    epoch,             \* number of QueryEnd rounds so far
    access_log,        \* the contexts handed out, oldest first
    opened,            \* TRUE when hfh is a live handle
    hfh,               \* the AzureBlobStorageFileHandle
    listing,           \* the container's blobs, in listing order
    page_size,         \* the page size the service uses for the listing
    glob,              \* the Glob call in progress
    match,             \* a call of the segment matcher and its result
    ret                \* what the last operation gave its caller

vars == <<blob, settings, registered_state, next_id, epoch, access_log,
          opened, hfh, listing, page_size, glob, match, ret>>

\* ------------------------------------------------------------------------
\* Failures
\* ------------------------------------------------------------------------
NoField == "-"
NoError == [kind |-> "none", code |-> NoField, reason |-> NoField, message |-> NoField]

\* IOException whose text carries the given parts of the remote failure.
IOException(code, reason, message) ==
    [kind |-> "IOException", code |-> code, reason |-> reason, message |-> message]
InternalException ==
    [kind |-> "InternalException", code |-> NoField, reason |-> NoField, message |-> NoField]
NotImplementedException ==
    [kind |-> "NotImplementedException", code |-> NoField, reason |-> NoField,
     message |-> NoField]
\* An exception of the SDK that leaves the file system as it was thrown.
Escaped(e) ==
    [kind |-> e.kind, code |-> e.code, reason |-> e.reason, message |-> e.message]

\* What a request to the storage SDK does: it succeeds, it throws
\* Azure::Storage::StorageException (code, reason phrase, message), or it
\* throws another std::exception (what(), a transport failure for one).  A
\* download whose transport fails may have written the first k bytes of its
\* destination.
Outcomes ==
    {[kind |-> "ok", code |-> NoField, reason |-> NoField, message |-> NoField, k |-> 0]}
    \cup {[kind |-> "StorageException", code |-> "E1", reason |-> "R1",
           message |-> "M1", k |-> 0]}
    \cup {[kind |-> "std::exception", code |-> NoField, reason |-> NoField,
           message |-> "W1", k |-> k] : k \in 0..MaxPartial}

OutcomesNoData == {o \in Outcomes : o.k = 0}

\* The service's own answer to a request it cannot serve.
ServiceError(code, reason, message) ==
    [kind |-> "StorageException", code |-> code, reason |-> reason,
     message |-> message, k |-> 0]

\* ------------------------------------------------------------------------
\* Requests sent to the storage service
\* ------------------------------------------------------------------------
\* Calls that do not reach the network are logged in the same shape.
LocalCall(name) ==
    [kind |-> name, offset |-> 0, len |-> 0, dest |-> NoField,
     prefix |-> <<>>, token |-> 0]
GetPropertiesRequest ==
    [kind |-> "GetProperties", offset |-> 0, len |-> 0, dest |-> NoField,
     prefix |-> <<>>, token |-> 0]
DownloadToRequest(offset, len, dest) ==
    [kind |-> "DownloadTo", offset |-> offset, len |-> len, dest |-> dest,
     prefix |-> <<>>, token |-> 0]
ListBlobsRequest(prefix, token) ==
    [kind |-> "ListBlobs", offset |-> 0, len |-> 0, dest |-> NoField,
     prefix |-> prefix, token |-> token]
NetworkKinds == {"GetProperties", "DownloadTo", "ListBlobs"}
NetworkRequests(calls) == SelectSeq(calls, LAMBDA c : c.kind \in NetworkKinds)

\* ------------------------------------------------------------------------
\* Paths and their parsed form
\* ------------------------------------------------------------------------
NullOpener == "nullptr"
SessionOpener == "opener"
Openers == {NullOpener, SessionOpener}

\* First position >= from of token c in s, 0 (npos) when there is none.
Find(s, c, from) ==
    LET hits == {i \in from..Len(s) : s[i] = c}
    IN IF hits = {} THEN 0 ELSE CHOOSE i \in hits : \A j \in hits : i <= j

\* azure://<account>.<endpoint>/<container>/<key>, or the short form
\* az://<container>/<key>, whose storage account name is empty.
ParseUrl(url) ==
    LET dot == Find(url, ".", 2)
        slash == Find(url, "/", 2)
    IN IF dot # 0 /\ dot < slash
       THEN LET container_slash == Find(url, "/", slash + 1)
            IN [prefix |-> SubSeq(url, 1, 1),
                storage_account_name |-> SubSeq(url, 2, dot - 1),
                endpoint |-> SubSeq(url, dot + 1, slash - 1),
                container |-> SubSeq(url, slash + 1, container_slash - 1),
                path |-> SubSeq(url, container_slash + 1, Len(url)),
                is_fully_qualified |-> TRUE]
       ELSE [prefix |-> SubSeq(url, 1, 1),
             storage_account_name |-> <<>>,
             endpoint |-> <<>>,
             container |-> SubSeq(url, 2, slash - 1),
             path |-> SubSeq(url, slash + 1, Len(url)),
             is_fully_qualified |-> FALSE]

ShortUrl(container, key) == <<"az://", container, "/">> \o key
FullUrl(account, container, key) ==
    <<"azure://", account, ".", "endpoint", "/", container, "/">> \o key

\* ------------------------------------------------------------------------
\* Storage contexts and their registry
\* ------------------------------------------------------------------------
Accounts == {<<>>, <<"acc1">>, <<"acc2">>}

NoContext ==
    [id |-> 0, conn |-> <<>>, read_options |-> [buffer_size |-> 0], is_valid |-> FALSE]

ParseAzureReadOptions(opener) ==
    [buffer_size |-> settings.azure_read_buffer_size]

\* The account connection is resolved from the secret whose scope covers
\* the path: one secret per container here.
ConnectToBlobStorageAccount(opener, path, parsed_url) ==
    <<parsed_url.storage_account_name, parsed_url.container>>

\* AzureBlobContextState's constructor: is_valid(true).
CreateStorageContext(opener, path, parsed_url, id) ==
    [id |-> id,
     conn |-> ConnectToBlobStorageAccount(opener, path, parsed_url),
     read_options |-> ParseAzureReadOptions(opener),
     is_valid |-> TRUE]

IsValid(azure_context_state) == azure_context_state.is_valid

\* A context found invalid replaced for the caller but not in the registry.
GetOrCreateStorageContextNoStore(opener, path, parsed_url, reg, id) ==
    LET name == parsed_url.storage_account_name
        fresh == CreateStorageContext(opener, path, parsed_url, id)
    IN IF settings.azure_context_caching
       THEN IF reg[name] = NoContext
            THEN [result |-> fresh, registered_state |-> [reg EXCEPT ![name] = fresh],
                  next_id |-> id + 1, cached |-> TRUE]
            ELSE IF ~reg[name].is_valid
                 THEN [result |-> fresh, registered_state |-> reg,
                       next_id |-> id + 1, cached |-> TRUE]
                 ELSE [result |-> reg[name], registered_state |-> reg,
                       next_id |-> id, cached |-> TRUE]
       ELSE [result |-> fresh, registered_state |-> reg, next_id |-> id + 1,
             cached |-> FALSE]

\* The context handed out, with the registry and the identity counter as
\* the call leaves them; reg and id are the registry and counter it finds.
GetOrCreateStorageContext(opener, path, parsed_url, reg, id) ==
    LET azure_context_caching == settings.azure_context_caching
        name == parsed_url.storage_account_name
        fresh == CreateStorageContext(opener, path, parsed_url, id)
    IN IF azure_context_caching
       THEN IF reg[name] = NoContext
            THEN [result |-> fresh, registered_state |-> [reg EXCEPT ![name] = fresh],
                  next_id |-> id + 1, cached |-> TRUE]
            ELSE IF ~IsValid(reg[name])
                 THEN [result |-> fresh,
                       registered_state |-> [reg EXCEPT ![name] = fresh],
                       next_id |-> id + 1, cached |-> TRUE]
                 ELSE [result |-> reg[name], registered_state |-> reg,
                       next_id |-> id, cached |-> TRUE]
       ELSE [result |-> fresh, registered_state |-> reg, next_id |-> id + 1,
             cached |-> FALSE]

\* The access log keeps the last MaxLog contexts handed out.
Logged(log, name, ctx) ==
    LET entry == [account |-> name, id |-> ctx.result.id, epoch |-> epoch,
                  caching |-> ctx.cached]
        all == Append(log, entry)
    IN IF Len(all) > MaxLog THEN Tail(all) ELSE all

\* ------------------------------------------------------------------------
\* The file handle
\* ------------------------------------------------------------------------
FILE_FLAGS_READ == "READ"
FILE_FLAGS_WRITE == "WRITE"
FILE_FLAGS_DIRECT_IO == "DIRECT_IO"
FlagSets == SUBSET {FILE_FLAGS_READ, FILE_FLAGS_WRITE, FILE_FLAGS_DIRECT_IO}

NoHandle ==
    [path |-> <<>>, flags |-> {}, length |-> 0, last_modified |-> 0,
     buffer_available |-> 0, buffer_idx |-> 0, file_offset |-> 0,
     buffer_start |-> 0, buffer_end |-> 0, read_buffer |-> <<>>,
     read_options |-> [buffer_size |-> 0]]

\* BlobClient::GetProperties as the service answers it.
GetProperties(outcome) ==
    IF outcome.kind # "ok" THEN [failure |-> outcome, BlobSize |-> 0, LastModified |-> 0]
    ELSE IF ~blob.exists
         THEN [failure |-> ServiceError("BlobNotFound", "NotFound", "M404"),
               BlobSize |-> 0, LastModified |-> 0]
         ELSE [failure |-> outcome, BlobSize |-> Len(blob.data),
               LastModified |-> blob.last_modified]

\* The constructor: the handle it builds, or the failure it throws.  fill is
\* the content of the freshly allocated, uninitialised read buffer.
AzureBlobStorageFileHandle(path_p, flags, read_options, outcome, fill) ==
    LET res == GetProperties(outcome)
        e == res.failure
    IN IF e.kind = "StorageException"
       THEN [error |-> IOException(e.code, e.reason, e.message), handle |-> NoHandle,
             cause |-> Escaped(e)]
       ELSE IF e.kind = "std::exception"
            THEN [error |-> IOException(NoField, NoField, e.message), handle |-> NoHandle,
                  cause |-> Escaped(e)]
            ELSE [error |-> NoError, cause |-> NoError,
                  handle |->
                     [path |-> path_p, flags |-> flags, length |-> res.BlobSize,
                      last_modified |-> 0,
                      buffer_available |-> 0, buffer_idx |-> 0, file_offset |-> 0,
                      buffer_start |-> 0, buffer_end |-> 0,
                      read_buffer |-> IF FILE_FLAGS_READ \in flags THEN fill ELSE <<>>,
                      read_options |-> read_options]]

\* dest with data written at its positions off+1 .. off+Len(data).
WriteAt(dest, off, data) ==
    [i \in 1..Len(dest) |->
        IF i > off /\ i <= off + Len(data) THEN data[i - off] ELSE dest[i]]

\* ReadRange: one DownloadTo of [file_offset, file_offset + buffer_out_len)
\* into dest at dest_off.  The service serves the part of the range that
\* lies in the blob and refuses a range that starts at or after its end.  Only
\* StorageException is caught; its message is not put in the text.
ReadRange(afh, file_offset, dest, dest_off, buffer_out_len, outcome) ==
    LET size == Len(blob.data)
        served == IF file_offset >= size THEN 0
                  ELSE MinValue(buffer_out_len, size - file_offset)
        e == IF outcome.kind = "ok" /\ served = 0
             THEN ServiceError("InvalidRange", "RangeNotSatisfiable", "M416")
             ELSE outcome
        written == IF e.kind = "ok" THEN served
                   ELSE IF served = 0 THEN 0 ELSE MinValue(e.k, served - 1)
        data == SubSeq(blob.data, file_offset + 1, file_offset + written)
    IN [dest |-> WriteAt(dest, dest_off, data),
        request |-> DownloadToRequest(file_offset, buffer_out_len, NoField),
        cause |-> IF e.kind = "ok" THEN NoError ELSE Escaped(e),
        error |-> IF e.kind = "ok" THEN NoError
                  ELSE IF e.kind = "StorageException"
                       THEN IOException(e.code, e.reason, NoField)
                       ELSE Escaped(e)]

\* memcpy out of the read buffer: len bytes from position idx.  A copy that
\* runs past the allocation yields Unset for the bytes it has no right to.
CopyOut(read_buffer, idx, len) ==
    [i \in 1..len |-> IF idx + i <= Len(read_buffer) THEN read_buffer[idx + i] ELSE Unset]

\* The loop of the positional Read, lines 265-297.  s holds the handle, the
\* caller's buffer and the locals; the loop ends when to_read is 0, at the
\* break of the bypass, or when ReadRange throws.
RECURSIVE ReadLoop(_, _, _)
ReadLoop(s, location, outcome) ==
    IF s.to_read = 0 \/ s.stop THEN s
    ELSE
    LET h == s.h
        buffer_read_len == MinValue(h.buffer_available, s.to_read)
        s1 == IF buffer_read_len > 0
              THEN [s EXCEPT
                     !.assert_ok = s.assert_ok /\
                        (h.buffer_start + h.buffer_idx + buffer_read_len <= h.buffer_end),
                     !.buffer = WriteAt(s.buffer, s.buffer_offset,
                                        CopyOut(h.read_buffer, h.buffer_idx, buffer_read_len)),
                     !.copied = s.copied + buffer_read_len,
                     !.buffer_offset = s.buffer_offset + buffer_read_len,
                     !.to_read = s.to_read - buffer_read_len,
                     !.h.buffer_idx = h.buffer_idx + buffer_read_len,
                     !.h.buffer_available = h.buffer_available - buffer_read_len,
                     !.h.file_offset = AddIdx(h.file_offset, buffer_read_len)]
              ELSE s
        h1 == s1.h
    IN IF s1.to_read > 0 /\ h1.buffer_available = 0
       THEN LET new_buffer_available ==
                    MinValue(h1.read_options.buffer_size, SubIdx(h1.length, h1.file_offset))
            IN IF s1.to_read > new_buffer_available
               THEN \* Bypass buffer if we read more than buffer size
                    LET r == ReadRange(h1, AddIdx(location, s1.buffer_offset), s1.buffer,
                                       s1.buffer_offset, s1.to_read, outcome)
                    IN IF r.error # NoError
                       THEN [s1 EXCEPT !.buffer = r.dest, !.error = r.error, !.stop = TRUE,
                                !.cause = r.cause,
                                !.calls = Append(s1.calls,
                                                 [r.request EXCEPT !.dest = "buffer"])]
                       ELSE [s1 EXCEPT !.buffer = r.dest, !.stop = TRUE,
                                !.calls = Append(s1.calls,
                                                 [r.request EXCEPT !.dest = "buffer"]),
                                !.h.buffer_available = 0,
                                !.h.buffer_idx = 0,
                                !.h.file_offset = AddIdx(h1.file_offset, s1.to_read)]
               ELSE LET r == ReadRange(h1, h1.file_offset, h1.read_buffer, 0,
                                       new_buffer_available, outcome)
                    IN IF r.error # NoError
                       THEN [s1 EXCEPT !.h.read_buffer = r.dest, !.error = r.error,
                                !.stop = TRUE, !.cause = r.cause,
                                !.calls = Append(s1.calls,
                                                 [r.request EXCEPT !.dest = "read_buffer"])]
                       ELSE ReadLoop(
                              [s1 EXCEPT
                                 !.calls = Append(s1.calls,
                                                  [r.request EXCEPT !.dest = "read_buffer"]),
                                 !.h.read_buffer = r.dest,
                                 !.h.buffer_available = new_buffer_available,
                                 !.h.buffer_idx = 0,
                                 !.h.buffer_start = h1.file_offset,
                                 !.h.buffer_end = h1.file_offset + new_buffer_available],
                              location, outcome)
       ELSE ReadLoop(s1, location, outcome)

\* The direct-I/O flag not looked at: every read takes the buffered path.
ReadLocationBuffered(hfh0, buffer, nr_bytes, location, outcome) ==
    LET start == [h |-> hfh0, buffer |-> buffer, to_read |-> nr_bytes, buffer_offset |-> 0,
                  copied |-> 0, calls |-> <<>>, error |-> NoError, stop |-> FALSE,
                  cause |-> NoError, assert_ok |-> TRUE]
    IN IF location >= hfh0.buffer_start /\ location < hfh0.buffer_end
       THEN ReadLoop([start EXCEPT
                        !.h.file_offset = location,
                        !.h.buffer_idx = location - hfh0.buffer_start,
                        !.h.buffer_available =
                           (hfh0.buffer_end - hfh0.buffer_start)
                              - (location - hfh0.buffer_start)],
                     location, outcome)
       ELSE ReadLoop([start EXCEPT
                        !.h.buffer_available = 0,
                        !.h.buffer_idx = 0,
                        !.h.file_offset = location],
                     location, outcome)

\* Read(handle, buffer, nr_bytes, location): the handle and the caller's
\* buffer as the call leaves them, the requests it sent, what it threw.
ReadLocation(hfh0, buffer, nr_bytes, location, outcome) ==
    LET to_read == nr_bytes
        start == [h |-> hfh0, buffer |-> buffer, to_read |-> to_read, buffer_offset |-> 0,
                  copied |-> 0, calls |-> <<>>, error |-> NoError, stop |-> FALSE,
                  cause |-> NoError, assert_ok |-> TRUE]
    IN IF FILE_FLAGS_DIRECT_IO \in hfh0.flags /\ to_read > 0
       THEN \* Don't buffer when DirectIO is set.
            LET r == ReadRange(hfh0, location, buffer, 0, to_read, outcome)
            IN IF r.error # NoError
               THEN [start EXCEPT !.buffer = r.dest, !.error = r.error, !.stop = TRUE,
                        !.cause = r.cause,
                        !.calls = <<[r.request EXCEPT !.dest = "buffer"]>>]
               ELSE [start EXCEPT !.buffer = r.dest, !.stop = TRUE,
                        !.calls = <<[r.request EXCEPT !.dest = "buffer"]>>,
                        !.h.buffer_available = 0,
                        !.h.buffer_idx = 0,
                        !.h.file_offset = AddIdx(location, nr_bytes)]
       ELSE IF location >= hfh0.buffer_start /\ location < hfh0.buffer_end
            THEN ReadLoop([start EXCEPT
                             !.h.file_offset = location,
                             !.h.buffer_idx = location - hfh0.buffer_start,
                             !.h.buffer_available =
                                (hfh0.buffer_end - hfh0.buffer_start)
                                   - (location - hfh0.buffer_start)],
                          location, outcome)
            ELSE \* reset buffer
                 ReadLoop([start EXCEPT
                             !.h.buffer_available = 0,
                             !.h.buffer_idx = 0,
                             !.h.file_offset = location],
                          location, outcome)

\* ------------------------------------------------------------------------
\* What an operation gives its caller
\* ------------------------------------------------------------------------
Ret(op, error, value) ==
    [op |-> op, error |-> error, value |-> value, list |-> <<>>, out |-> <<>>,
     calls |-> <<>>, location |-> 0, nr_bytes |-> 0, path |-> <<>>, flags |-> {},
     opener |-> NullOpener, inner |-> NoError, cause |-> NoError]

Returned == ret.error = NoError
Threw == ret.error # NoError

\* ------------------------------------------------------------------------
\* Opening a file
\* ------------------------------------------------------------------------
\* The opener looked at only after the context was fetched.
CreateHandleLate(path, flags, opener, outcome, fill) ==
    LET parsed_url == ParseUrl(path)
        storage_context ==
            GetOrCreateStorageContext(opener, path, parsed_url,
                                      registered_state, next_id)
        read_options == storage_context.result.read_options
        made == AzureBlobStorageFileHandle(
                    path, flags, read_options, outcome,
                    SubSeq(fill, 1, read_options.buffer_size))
    IN IF opener = NullOpener
       THEN [error |-> InternalException, handle |-> NoHandle, cause |-> NoError,
             registered_state |-> storage_context.registered_state,
             next_id |-> storage_context.next_id,
             calls |-> <<LocalCall("ParseUrl"), LocalCall("GetOrCreateStorageContext")>>]
       ELSE [error |-> made.error, handle |-> made.handle, cause |-> made.cause,
             registered_state |-> storage_context.registered_state,
             next_id |-> storage_context.next_id,
             calls |-> <<LocalCall("ParseUrl"), LocalCall("GetOrCreateStorageContext"),
                         GetPropertiesRequest>>]

\* CreateHandle: the handle or the failure, with the registry, the counter,
\* and the calls made as it leaves them.
CreateHandle(path, flags, opener, outcome, fill) ==
    IF opener = NullOpener
    THEN [error |-> InternalException, handle |-> NoHandle,
          registered_state |-> registered_state, next_id |-> next_id,
          calls |-> <<>>, cause |-> NoError]
    ELSE LET parsed_url == ParseUrl(path)
             storage_context ==
                 GetOrCreateStorageContext(opener, path, parsed_url,
                                           registered_state, next_id)
             read_options == storage_context.result.read_options
             made == AzureBlobStorageFileHandle(
                         path, flags, read_options, outcome,
                         SubSeq(fill, 1, read_options.buffer_size))
         IN [error |-> made.error, handle |-> made.handle, cause |-> made.cause,
             registered_state |-> storage_context.registered_state,
             next_id |-> storage_context.next_id,
             calls |-> <<LocalCall("ParseUrl"), LocalCall("GetOrCreateStorageContext"),
                         GetPropertiesRequest>>]

\* The write flag looked at only after the handle was made.
OpenFileResultLate(path, flags, opener, outcome, fill) ==
    LET r == CreateHandle(path, flags, opener, outcome, fill)
    IN IF FILE_FLAGS_WRITE \in flags
       THEN [r EXCEPT !.error = NotImplementedException, !.handle = NoHandle]
       ELSE r

OpenFileResult(path, flags, opener, outcome, fill) ==
    IF FILE_FLAGS_WRITE \in flags
    THEN [error |-> NotImplementedException, handle |-> NoHandle,
          registered_state |-> registered_state, next_id |-> next_id,
          calls |-> <<>>, cause |-> NoError]
    ELSE CreateHandle(path, flags, opener, outcome, fill)

\* OpenFile(path, flags, lock, compression, opener); compression is
\* UNCOMPRESSED, as the function asserts.  A handle opened takes the place
\* of the one the caller held.
OpenFile(path, flags, opener, outcome, fill) ==
    /\ next_id <= MaxCtx
    /\ \E r \in {OpenFileResult(path, flags, opener, outcome, fill)} :
       /\ registered_state' = r.registered_state
       /\ next_id' = r.next_id
       /\ IF r.error = NoError
          THEN opened' = TRUE /\ hfh' = r.handle
          ELSE UNCHANGED <<opened, hfh>>
       /\ ret' = [Ret("OpenFile", r.error, 0) EXCEPT
                    !.calls = r.calls, !.path = path, !.flags = flags,
                    !.opener = opener, !.cause = r.cause]
       /\ UNCHANGED <<match, blob, settings, epoch, access_log, listing, page_size, glob>>

GetFileSize ==
    /\ opened
    /\ ret' = Ret("GetFileSize", NoError, hfh.length)
    /\ UNCHANGED <<match, blob, settings, registered_state, next_id, epoch, access_log,
                   opened, hfh, listing, page_size, glob>>

GetLastModifiedTime ==
    /\ opened
    /\ ret' = Ret("GetLastModifiedTime", NoError, hfh.last_modified)
    /\ UNCHANGED <<match, blob, settings, registered_state, next_id, epoch, access_log,
                   opened, hfh, listing, page_size, glob>>

Seek(location) ==
    /\ opened
    /\ hfh' = [hfh EXCEPT !.file_offset = location]
    /\ ret' = [Ret("Seek", NoError, 0) EXCEPT !.location = location]
    /\ UNCHANGED <<match, blob, settings, registered_state, next_id, epoch, access_log,
                   opened, listing, page_size, glob>>

\* The caller's buffer before a read: nr_bytes bytes nothing has written.
CallerBuffer(nr_bytes) == [i \in 1..nr_bytes |-> Unset]

\* Read(handle, buffer, nr_bytes, location)
ReadAt(nr_bytes, location, outcome) ==
    /\ opened
    /\ FILE_FLAGS_READ \in hfh.flags
    /\ \E r \in {ReadLocation(hfh, CallerBuffer(nr_bytes), nr_bytes, location, outcome)} :
       /\ hfh' = r.h
       /\ ret' = [Ret("ReadAt", r.error, 0) EXCEPT
                    !.out = r.buffer, !.calls = r.calls, !.location = location,
                    !.nr_bytes = nr_bytes, !.cause = r.cause]
       /\ UNCHANGED <<match, blob, settings, registered_state, next_id, epoch, access_log,
                      opened, listing, page_size, glob>>

\* Read(handle, buffer, nr_bytes): the sequential read.
Read(nr_bytes, outcome) ==
    /\ opened
    /\ FILE_FLAGS_READ \in hfh.flags
    /\ LET max_read == SubIdx(hfh.length, hfh.file_offset)
           n == MinValue(max_read, nr_bytes)
       IN \E r \in {ReadLocation(hfh, CallerBuffer(nr_bytes), n, hfh.file_offset,
                                  outcome)} :
       /\ hfh' = r.h
       /\ ret' = [Ret("Read", r.error, n) EXCEPT
                    !.out = r.buffer, !.calls = r.calls, !.location = hfh.file_offset,
                    !.nr_bytes = n, !.cause = r.cause]
       /\ UNCHANGED <<match, blob, settings, registered_state, next_id, epoch, access_log,
                      opened, listing, page_size, glob>>

\* FileExists: OpenFile(filename, FILE_FLAGS_READ) with the default opener,
\* inside try { } catch (...).
\* A catch of IOException alone in place of catch (...).
FileExistsResultIOOnly(r) ==
    IF r.error.kind = "IOException" THEN [error |-> NoError, value |-> FALSE]
    ELSE IF r.error # NoError THEN [error |-> r.error, value |-> FALSE]
    ELSE [error |-> NoError, value |-> (r.handle.length # 0)]

FileExistsResult(r) ==
    IF r.error # NoError THEN [error |-> NoError, value |-> FALSE]
    ELSE [error |-> NoError, value |-> (r.handle.length # 0)]

FileExists(filename, outcome, fill) ==
    /\ next_id <= MaxCtx
    /\ \E r \in {OpenFileResult(filename, {FILE_FLAGS_READ}, NullOpener, outcome, fill)} :
       LET x == FileExistsResult(r) IN
       /\ registered_state' = r.registered_state
       /\ next_id' = r.next_id
       /\ ret' = [Ret("FileExists", x.error, IF x.value THEN 1 ELSE 0) EXCEPT
                    !.calls = r.calls, !.path = filename, !.inner = r.error]
       /\ UNCHANGED <<match, blob, settings, epoch, access_log, opened, hfh, listing,
                      page_size, glob>>

\* ------------------------------------------------------------------------
\* The segment matcher
\* ------------------------------------------------------------------------
\* StringUtil::Split(input, "/"): the non-empty pieces between separators,
\* or the input itself when there is none.
RECURSIVE SplitFrom(_, _)
SplitFrom(input, last) ==
    IF last > Len(input) + 1 THEN <<>>
    ELSE LET found == Find(input, "/", last)
             next == IF found = 0 THEN Len(input) + 1 ELSE found
             substr == SubSeq(input, last, next - 1)
             rest == SplitFrom(input, next + 1)
         IN IF substr # <<>> THEN <<substr>> \o rest ELSE rest

Split(input) ==
    LET splits == SplitFrom(input, 1)
    IN IF splits = <<>> THEN <<input>> ELSE splits

\* LikeFun::Glob on one segment: * any run of characters, ? one character,
\* [..] one character of the class, a backslash the next character itself.
RECURSIVE LikeGlob(_, _)
LikeGlob(str, pat) ==
    IF pat = <<>> THEN str = <<>>
    ELSE IF Head(pat) = "*"
         THEN \E i \in 0..Len(str) : LikeGlob(SubSeq(str, i + 1, Len(str)), Tail(pat))
    ELSE IF str = <<>> THEN FALSE
    ELSE IF Head(pat) = "?" THEN LikeGlob(Tail(str), Tail(pat))
    ELSE IF Head(pat) = "["
         THEN LET close == Find(pat, "]", 2)
              IN /\ close # 0
                 /\ Head(str) \in {pat[j] : j \in 2..(close - 1)}
                 /\ LikeGlob(Tail(str), SubSeq(pat, close + 1, Len(pat)))
    ELSE IF Head(pat) = "\\"
         THEN /\ Len(pat) >= 2
              /\ Head(str) = pat[2]
              /\ LikeGlob(Tail(str), SubSeq(pat, 3, Len(pat)))
    ELSE Head(str) = Head(pat) /\ LikeGlob(Tail(str), Tail(pat))

StarStar == <<"*", "*">>

NoMatch == [key |-> <<>>, pattern |-> <<>>, done |-> FALSE, result |-> FALSE]

\* Match(key, key_end, pattern, pattern_end) on the segments that remain.
RECURSIVE Match(_, _)
Match(key, pattern) ==
    IF key # <<>> /\ pattern # <<>>
    THEN IF Head(pattern) = StarStar
         THEN IF Tail(pattern) = <<>>
              THEN TRUE
              ELSE \E i \in 1..Len(key) :
                      Match(SubSeq(key, i, Len(key)), Tail(pattern))
         ELSE IF ~LikeGlob(Head(key), Head(pattern))
              THEN FALSE
              ELSE Match(Tail(key), Tail(pattern))
    ELSE key = <<>> /\ pattern = <<>>

\* ------------------------------------------------------------------------
\* Glob
\* ------------------------------------------------------------------------
NoGlob ==
    [pc |-> "idle", path |-> <<>>, shared_path |-> <<>>, pattern_splits |-> <<>>,
     path_result_prefix |-> <<>>, token |-> 0, result |-> <<>>, calls |-> <<>>]

\* path.find_first_of("*[\\"), 0 for npos.
FirstWildcardPos(path) ==
    LET hits == {i \in 1..Len(path) : path[i] \in {"*", "[", "\\"}}
    IN IF hits = {} THEN 0 ELSE CHOOSE i \in hits : \A j \in hits : i <= j

\* The parsed key returned in place of the path.
GlobLiteralKey(path, azure_url) == <<azure_url.path>>

\* What Glob returns for a key in which it finds no wildcard.
GlobLiteral(path, azure_url) == <<path>>

PathResultPrefix(azure_url) ==
    IF azure_url.is_fully_qualified
    THEN azure_url.prefix \o azure_url.storage_account_name \o <<".">>
            \o azure_url.endpoint \o <<"/">> \o azure_url.container
    ELSE azure_url.prefix \o azure_url.container

HasPrefix(key, prefix) ==
    Len(key) >= Len(prefix) /\ SubSeq(key, 1, Len(prefix)) = prefix

\* The service's answer to ListBlobs: the blobs with the prefix, in listing
\* order, page_size at a time; a continuation token counts the blobs
\* already listed and is absent (0) on the last page.
ListBlobs(options) ==
    LET all == SelectSeq(listing, LAMBDA k : HasPrefix(k, options.Prefix))
        from == options.ContinuationToken
        upto == MinValue(Len(all), from + page_size)
    IN [Blobs |-> SubSeq(all, from + 1, upto),
        NextPageToken |-> IF upto < Len(all) THEN upto ELSE 0]

\* The matching keys of one page, as full URLs, lines 218-226.
RECURSIVE PageMatches(_, _, _)
PageMatches(blobs, pattern_splits, path_result_prefix) ==
    IF blobs = <<>> THEN <<>>
    ELSE LET key == Head(blobs)
             key_splits == Split(key)
             is_match == Match(key_splits, pattern_splits)
             rest == PageMatches(Tail(blobs), pattern_splits, path_result_prefix)
         IN IF is_match THEN <<path_result_prefix \o <<"/">> \o key>> \o rest ELSE rest

\* The continuation token never looked at.
HasNextPageNever(res) == FALSE

\* Manage Azure pagination, lines 229-233.
HasNextPage(res) == res.NextPageToken # 0

\* Glob up to its first listing request, lines 177-203.
Glob(path, opener) ==
    /\ glob.pc = "idle"
    /\ next_id <= MaxCtx
    /\ IF opener = NullOpener
       THEN /\ ret' = [Ret("Glob", InternalException, 0) EXCEPT
                         !.path = path, !.opener = opener]
            /\ UNCHANGED <<registered_state, next_id, glob>>
       ELSE LET azure_url == ParseUrl(path)
                storage_context ==
                    GetOrCreateStorageContext(opener, path, azure_url,
                                              registered_state, next_id)
                first_wildcard_pos == FirstWildcardPos(azure_url.path)
            IN /\ registered_state' = storage_context.registered_state
               /\ next_id' = storage_context.next_id
               /\ IF first_wildcard_pos = 0
                  THEN /\ ret' = [Ret("Glob", NoError, 0) EXCEPT
                                    !.list = GlobLiteral(path, azure_url),
                                    !.path = path, !.opener = opener,
                                    !.calls = <<LocalCall("ParseUrl"),
                                                LocalCall("GetOrCreateStorageContext")>>]
                       /\ UNCHANGED glob
                  ELSE /\ glob' = [pc |-> "listing", path |-> path,
                                   shared_path |->
                                      SubSeq(azure_url.path, 1, first_wildcard_pos - 1),
                                   pattern_splits |-> Split(azure_url.path),
                                   path_result_prefix |-> PathResultPrefix(azure_url),
                                   token |-> 0, result |-> <<>>,
                                   calls |-> <<LocalCall("ParseUrl"),
                                               LocalCall("GetOrCreateStorageContext")>>]
                       /\ ret' = [Ret("GlobListing", NoError, 0) EXCEPT
                                    !.path = path, !.opener = opener]
    /\ UNCHANGED <<match, blob, settings, epoch, access_log, opened, hfh, listing, page_size>>

\* One turn of the listing loop, lines 204-234, and the return after it: the
\* Glob call and what the caller has, as the turn leaves them.
GlobTurn(g, outcome) ==
    LET options == [Prefix |-> g.shared_path, ContinuationToken |-> g.token]
        request == ListBlobsRequest(options.Prefix, options.ContinuationToken)
        calls == Append(g.calls, request)
        res == ListBlobs(options)
        result == g.result \o PageMatches(res.Blobs, g.pattern_splits,
                                          g.path_result_prefix)
    IN IF outcome.kind = "StorageException"
       THEN [glob |-> NoGlob,
             ret |-> [Ret("Glob", IOException(outcome.code, outcome.reason, NoField), 0)
                        EXCEPT !.path = g.path, !.opener = SessionOpener,
                               !.calls = calls, !.cause = Escaped(outcome)]]
       ELSE IF outcome.kind = "std::exception"
       THEN [glob |-> NoGlob,
             ret |-> [Ret("Glob", Escaped(outcome), 0)
                        EXCEPT !.path = g.path, !.opener = SessionOpener,
                               !.calls = calls, !.cause = Escaped(outcome)]]
       ELSE IF HasNextPage(res)
       THEN [glob |-> [g EXCEPT !.token = res.NextPageToken, !.result = result,
                                !.calls = calls],
             ret |-> ret]
       ELSE [glob |-> NoGlob,
             ret |-> [Ret("Glob", NoError, 0) EXCEPT
                        !.list = result, !.path = g.path,
                        !.opener = SessionOpener, !.calls = calls]]

GlobPage(outcome) ==
    /\ glob.pc = "listing"
    /\ \E turn \in {GlobTurn(glob, outcome)} :
          /\ glob' = turn.glob
          /\ ret' = turn.ret
    /\ UNCHANGED <<match, blob, settings, registered_state, next_id, epoch, access_log,
                   opened, hfh, listing, page_size>>

\* ------------------------------------------------------------------------
\* The handle specification: one blob, opened, read and sought
\* ------------------------------------------------------------------------

\* Blob contents: every length up to MaxLen, the bytes all different, so that
\* a byte delivered from the wrong place shows.
Contents(k) == {[i \in 1..k |-> i]}
ModifiedTimes == {7}
Blobs ==
    {[exists |-> FALSE, data |-> <<>>, last_modified |-> 0]}
    \cup {[exists |-> TRUE, data |-> d, last_modified |-> t] :
             d \in UNION {Contents(k) : k \in 0..MaxLen}, t \in ModifiedTimes}

Fills == [1..MaxBuf -> JunkBytes]
Locations == 0..MaxLen
Counts == 0..MaxLen
ReadPaths == {ShortUrl("c1", <<"a">>)}

InitCommon ==
    /\ registered_state = [a \in Accounts |-> NoContext]
    /\ next_id = 1
    /\ epoch = 0
    /\ access_log = <<>>
    /\ opened = FALSE
    /\ hfh = NoHandle
    /\ glob = NoGlob
    /\ match = NoMatch
    /\ ret = Ret("none", NoError, 0)

Init ==
    /\ InitCommon
    /\ blob \in Blobs
    /\ settings \in [azure_context_caching : {TRUE},
                      azure_read_buffer_size : 0..MaxBuf]
    /\ listing = <<>>
    /\ page_size = 1

Next ==
    \/ \E path \in ReadPaths, flags \in FlagSets, opener \in Openers,
          outcome \in OutcomesNoData, fill \in Fills :
          OpenFile(path, flags, opener, outcome, fill)
    \/ \E location \in Locations : Seek(location)
    \/ \E nr_bytes \in Counts, location \in Locations, outcome \in Outcomes :
          ReadAt(nr_bytes, location, outcome)
    \/ \E nr_bytes \in Counts, outcome \in Outcomes : Read(nr_bytes, outcome)
    \/ GetFileSize
    \/ GetLastModifiedTime
    \/ \E filename \in ReadPaths, outcome \in OutcomesNoData, fill \in Fills :
          FileExists(filename, outcome, fill)

Spec == Init /\ [][Next]_vars

\* ------------------------------------------------------------------------
\* The context specification: accesses to the registry across queries
\* ------------------------------------------------------------------------
ContextPaths ==
    {ShortUrl("c1", <<"a">>), ShortUrl("c2", <<"a">>),
     FullUrl("acc1", "c1", <<"a">>), FullUrl("acc2", "c1", <<"a">>)}

\* A handler (CreateHandle, Glob) reaching GetOrCreateStorageContext.
StorageContextAccess(path) ==
    /\ \E ctx \in {GetOrCreateStorageContext(SessionOpener, path, ParseUrl(path),
                                              registered_state, next_id)} :
          /\ ctx.next_id <= MaxCtx + 1
          /\ registered_state' = ctx.registered_state
          /\ next_id' = ctx.next_id
          /\ access_log' = Logged(access_log, ParseUrl(path).storage_account_name, ctx)
          /\ ret' = [Ret("GetOrCreateStorageContext", NoError, ctx.result.id) EXCEPT
                       !.path = path, !.opener = SessionOpener]
    /\ UNCHANGED <<match, blob, settings, epoch, opened, hfh, listing, page_size, glob>>

\* The end of a query: the host calls QueryEnd on every registered state,
\* and AzureBlobContextState::QueryEnd clears is_valid.
QueryEnd ==
    /\ epoch < MaxEpoch
    /\ epoch' = epoch + 1
    /\ registered_state' =
          [a \in Accounts |->
              IF registered_state[a] = NoContext THEN NoContext
              ELSE [registered_state[a] EXCEPT !.is_valid = FALSE]]
    /\ ret' = Ret("QueryEnd", NoError, 0)
    /\ UNCHANGED <<match, blob, settings, next_id, access_log, opened, hfh, listing,
                   page_size, glob>>

\* SET azure_context_caching
SetContextCaching(enabled) ==
    /\ settings.azure_context_caching # enabled
    /\ settings' = [settings EXCEPT !.azure_context_caching = enabled]
    /\ ret' = Ret("SetContextCaching", NoError, 0)
    /\ UNCHANGED <<match, blob, registered_state, next_id, epoch, access_log, opened,
                   hfh, listing, page_size, glob>>

InitContext ==
    /\ InitCommon
    /\ blob = [exists |-> FALSE, data |-> <<>>, last_modified |-> 0]
    /\ settings = [azure_context_caching |-> TRUE, azure_read_buffer_size |-> MaxBuf]
    /\ listing = <<>>
    /\ page_size = 1

NextContext ==
    \/ \E path \in ContextPaths : StorageContextAccess(path)
    \/ QueryEnd
    \/ \E enabled \in BOOLEAN : SetContextCaching(enabled)

SpecContext == InitContext /\ [][NextContext]_vars

\* ------------------------------------------------------------------------
\* The glob specification: one container, listed in pages
\* ------------------------------------------------------------------------
\* The keys a container may hold, in the order the service lists them.
KeyOrder ==
    << <<"a">>, <<"a", "/", "a", "/", "b">>, <<"a", "/", "b">>, <<"a", "b">>,
       <<"a", "b", "/", "b">>, <<"b">> >>

KeyPatterns ==
    { <<"*">>,
      <<"a", "/", "*">>,
      <<"a", "?", "/", "*">>,
      <<"*", "*", "/", "b">>,
      <<"a", "/", "*", "*">>,
      <<"a", "/", "*", "*", "/", "b">>,
      <<"[", "a", "b", "]">>,
      <<"\\", "a", "*">>,
      <<"a", "?">>,
      <<"a", "/", "b">>,
      <<"b", "/", "b">> }

GlobPaths ==
    {ShortUrl("c1", p) : p \in KeyPatterns}
    \cup {FullUrl("acc1", "c1", p) : p \in {<<"a", "/", "*">>, <<"a", "/", "b">>}}

Listings ==
    {SelectSeq(KeyOrder, LAMBDA k : k \in held) :
        held \in {h \in SUBSET {KeyOrder[i] : i \in 1..Len(KeyOrder)} :
                     Cardinality(h) <= MaxBlobs}}

InitGlob ==
    /\ InitCommon
    /\ blob = [exists |-> FALSE, data |-> <<>>, last_modified |-> 0]
    /\ settings = [azure_context_caching |-> TRUE, azure_read_buffer_size |-> MaxBuf]
    /\ listing \in Listings
    /\ page_size \in 1..MaxPage

\* The service answers the listing request with a failure or with a page.
GlobPageStep ==
    \/ \E outcome \in {o \in OutcomesNoData : o.kind # "ok"} : GlobPage(outcome)
    \/ \E outcome \in {o \in OutcomesNoData : o.kind = "ok"} : GlobPage(outcome)

NextGlob ==
    \/ \E path \in GlobPaths, opener \in Openers : Glob(path, opener)
    \/ GlobPageStep

SpecGlob == InitGlob /\ [][NextGlob]_vars

\* Glob runs to its end without waiting on anything but the service's answer.
SpecGlobFair == SpecGlob /\ WF_vars(GlobPageStep)

\* ------------------------------------------------------------------------
\* The matcher specification: Match on bounded keys and patterns
\* ------------------------------------------------------------------------
KeySegments == { <<"a">>, <<"b">>, <<"a", "b">> }
PatternSegments == { StarStar, <<"*">>, <<"a">>, <<"a", "?">>, <<"[", "a", "b", "]">> }

SeqsOver(S, n) == UNION {[1..k -> S] : k \in 1..n}

InitMatch ==
    /\ registered_state = [a \in Accounts |-> NoContext]
    /\ next_id = 1
    /\ epoch = 0
    /\ access_log = <<>>
    /\ opened = FALSE
    /\ hfh = NoHandle
    /\ glob = NoGlob
    /\ ret = Ret("none", NoError, 0)
    /\ \E key \in SeqsOver(KeySegments, MaxSegs),
          pattern \in SeqsOver(PatternSegments, MaxSegs) :
          match = [key |-> key, pattern |-> pattern, done |-> FALSE, result |-> FALSE]
    /\ blob = [exists |-> FALSE, data |-> <<>>, last_modified |-> 0]
    /\ settings = [azure_context_caching |-> TRUE, azure_read_buffer_size |-> MaxBuf]
    /\ listing = <<>>
    /\ page_size = 1

\* Match applied to the segments of the key and of the pattern.
MatchCall ==
    /\ ~match.done
    /\ match' = [match EXCEPT !.done = TRUE,
                              !.result = Match(match.key, match.pattern)]
    /\ UNCHANGED <<blob, settings, registered_state, next_id, epoch, access_log,
                   opened, hfh, listing, page_size, glob, ret>>

NextMatch == MatchCall

SpecMatch == InitMatch /\ [][NextMatch]_vars

\* ------------------------------------------------------------------------
\* Properties of the handle specification
\* ------------------------------------------------------------------------
BufferedRead ==
    /\ opened
    /\ ret.op \in {"Read", "ReadAt"}
    /\ FILE_FLAGS_DIRECT_IO \notin hfh.flags

InBounds == ret.location + ret.nr_bytes <= hfh.length

\* C1: on a buffered handle, every read that returns and whose range
\* [location, location + n) lies in the blob has put exactly the blob's bytes
\* of that range in the caller's buffer, whatever calls came before it.
C1_BufferedReadsDeliverBlobBytes ==
    (BufferedRead /\ Returned /\ InBounds) =>
        SubSeq(ret.out, 1, ret.nr_bytes)
            = SubSeq(blob.data, ret.location + 1, ret.location + ret.nr_bytes)

\* C3: an OpenFile with the write flag throws NotImplementedException, makes
\* no call (no parse, no registry access, no request) and leaves the handle
\* and the registry as they were.
C3_WriteOpenFailsFirst ==
    [][(ret'.op = "OpenFile" /\ FILE_FLAGS_WRITE \in ret'.flags) =>
          /\ ret'.error = NotImplementedException
          /\ ret'.calls = <<>>
          /\ UNCHANGED <<registered_state, next_id, opened, hfh>>]_vars

C3_Witness ==
    /\ ret.op = "OpenFile"
    /\ ret.flags = {FILE_FLAGS_READ, FILE_FLAGS_WRITE}
    /\ ret.opener = SessionOpener
    /\ ret.error = NotImplementedException
    /\ opened

\* C8: a StorageException of the SDK reaches the caller as an IOException
\* with its error code, reason phrase and message; any other failure of the
\* SDK reaches the caller as an IOException.
C8_SdkFailuresTranslated ==
    /\ ret.cause.kind = "StorageException" =>
          ret.error = IOException(ret.cause.code, ret.cause.reason, ret.cause.message)
    /\ ret.cause.kind = "std::exception" => ret.error.kind = "IOException"

\* C9: FileExists throws nothing; when the open it makes fails, it returns
\* false.
C9_FileExistsNeverThrows ==
    ret.op = "FileExists" =>
        /\ Returned
        /\ ret.inner # NoError => ret.value = 0

C9_Witness ==
    /\ ret.op = "FileExists"
    /\ ret.inner = InternalException
    /\ blob.exists
    /\ Len(blob.data) > 0

\* C10: the modification time a handle reports is the last-modified time the
\* service holds for the blob.
C10_LastModifiedIsServiceTime ==
    ret.op = "GetLastModifiedTime" => ret.value = blob.last_modified

\* ------------------------------------------------------------------------
\* Properties of the context specification
\* ------------------------------------------------------------------------
SameSlot(x, y) ==
    x.caching /\ y.caching /\ x.account = y.account /\ x.epoch = y.epoch

\* The last access with caching enabled that the log holds for an account.
LastCached(a) ==
    LET hits == {i \in 1..Len(access_log) :
                    access_log[i].caching /\ access_log[i].account = a}
    IN IF hits = {} THEN 0 ELSE CHOOSE i \in hits : \A j \in hits : j <= i

\* C2: with caching enabled, two accesses to one account name get the same
\* context instance exactly when no QueryEnd lies between them; the first
\* access after a QueryEnd gets an instance never handed out before, and the
\* registry holds, for each account, the instance last handed out for it.
C2_SameContextUntilQueryEnd ==
    /\ \A i, j \in 1..Len(access_log) :
          i < j => ((access_log[i].id = access_log[j].id)
                       <=> SameSlot(access_log[i], access_log[j]))
    /\ \A a \in Accounts :
          LastCached(a) # 0 =>
             /\ registered_state[a].id = access_log[LastCached(a)].id
             /\ registered_state[a].is_valid <=> (access_log[LastCached(a)].epoch = epoch)

C2_Witness ==
    /\ Len(access_log) = 3
    /\ \A i \in 1..3 : access_log[i].caching /\ access_log[i].account = <<"acc1">>
    /\ access_log[1].epoch < access_log[2].epoch
    /\ access_log[2].epoch = access_log[3].epoch
    /\ access_log[1].id # access_log[2].id
    /\ access_log[2].id = access_log[3].id
    /\ registered_state[<<"acc1">>].id = access_log[3].id

\* ------------------------------------------------------------------------
\* Properties of the matcher specification
\* ------------------------------------------------------------------------
\* The matcher as the specification words it: a ** segment takes any number
\* of key segments, none included, wherever it stands; any other segment
\* takes exactly one key segment that it matches; nothing may be left over.
RECURSIVE SegmentsMatch(_, _)
SegmentsMatch(key, pattern) ==
    IF pattern = <<>> THEN key = <<>>
    ELSE IF Head(pattern) = StarStar
         THEN \E n \in 0..Len(key) :
                 SegmentsMatch(SubSeq(key, n + 1, Len(key)), Tail(pattern))
         ELSE /\ key # <<>>
              /\ LikeGlob(Head(key), Head(pattern))
              /\ SegmentsMatch(Tail(key), Tail(pattern))

\* C5: Match accepts a key exactly when its segments can be consumed by the
\* pattern's, ** taking zero or more segments wherever it occurs and every
\* other pattern segment exactly one.
C5_StarStarZeroOrMore ==
    match.done => (match.result = SegmentsMatch(match.key, match.pattern))

\* ------------------------------------------------------------------------
\* Properties of the glob specification
\* ------------------------------------------------------------------------
WildcardTokens == {"*", "?", "["}
HasWildcard(key) == \E i \in 1..Len(key) : key[i] \in WildcardTokens
NoWildcard(key) == \A i \in 1..Len(key) : key[i] \notin (WildcardTokens \cup {"\\"})

\* Glob called with an opener has returned or thrown.
GlobEnded == ret.op = "Glob" /\ ret.opener = SessionOpener
GlobKey == ParseUrl(ret.path).path

\* The blobs of the container whose key the matcher accepts for the
\* pattern, in listing order, as full URLs.
MatchingBlobs(blobs, path) ==
    PageMatches(blobs, Split(ParseUrl(path).path), PathResultPrefix(ParseUrl(path)))

ListBlobsCalls(calls) == SelectSeq(calls, LAMBDA c : c.kind = "ListBlobs")

\* C4: for a pattern with a wildcard, Glob returns exactly the blobs of the
\* container whose key the matcher accepts for the pattern.
C4_GlobReturnsAllMatches ==
    (GlobEnded /\ Returned /\ HasWildcard(GlobKey)) =>
        ret.list = MatchingBlobs(listing, ret.path)

ListedBlobs(path) ==
    LET key == ParseUrl(path).path
        shared_path == SubSeq(key, 1, FirstWildcardPos(key) - 1)
    IN SelectSeq(listing, LAMBDA k : HasPrefix(k, shared_path))

PageCount(n) == IF n = 0 THEN 1 ELSE (n + page_size - 1) \div page_size

ExpectedRequests(path) ==
    LET key == ParseUrl(path).path
        shared_path == SubSeq(key, 1, FirstWildcardPos(key) - 1)
    IN [i \in 1..PageCount(Len(ListedBlobs(path))) |->
           ListBlobsRequest(shared_path, (i - 1) * page_size)]

GlobListed == GlobEnded /\ Returned /\ FirstWildcardPos(GlobKey) # 0

Npos == IdxModulus - 1

\* The product of two words, modulo IdxModulus, computed on half words so
\* that no intermediate value leaves the checker's integers.
HalfWord == 32768
MulIdx(a, b) ==
    LET ah == a \div HalfWord
        al == a % HalfWord
        bh == b \div HalfWord
        bl == b % HalfWord
        mid == (((ah * bl) % HalfWord) + ((al * bh) % HalfWord)) % HalfWord
    IN (mid * HalfWord + ((al * bl) % IdxModulus)) % IdxModulus

\* For CanHandleFile a path is a sequence of pieces of text, so that one
\* scheme can be the beginning of the other's spelling.
AzurePrefix == <<"az", "ure", "://">>
AzPrefix == <<"az", "://">>
SchemePieces == {"az", "ure", "://", "x"}
MaxPath == 4
SchemePaths == UNION {[1..k -> SchemePieces] : k \in 0..MaxPath}

\* s.rfind(t, pos): the last position at or before pos at which t occurs in
\* s, positions counted from 0; npos when there is none.
RFind(s, t, pos) ==
    LET hits == {i \in 0..MinValue(pos, Len(s) - Len(t)) :
                    SubSeq(s, i + 1, i + Len(t)) = t}
    IN IF hits = {} THEN Npos ELSE CHOOSE i \in hits : \A j \in hits : j <= i

\* The two positions added in place of multiplied.
CanHandleFileSum(fpath) ==
    AddIdx(RFind(fpath, AzurePrefix, 0), RFind(fpath, AzPrefix, 0)) = 0

CanHandleFileResult(fpath) ==
    MulIdx(RFind(fpath, AzurePrefix, 0), RFind(fpath, AzPrefix, 0)) = 0

CanHandleFile(fpath) ==
    /\ ret' = [Ret("CanHandleFile", NoError, IF CanHandleFileResult(fpath) THEN 1 ELSE 0)
                 EXCEPT !.path = fpath]
    /\ UNCHANGED <<match, blob, settings, registered_state, next_id, epoch, access_log,
                   opened, hfh, listing, page_size, glob>>

InitScheme ==
    /\ InitCommon
    /\ blob = [exists |-> FALSE, data |-> <<>>, last_modified |-> 0]
    /\ settings = [azure_context_caching |-> TRUE, azure_read_buffer_size |-> MaxBuf]
    /\ listing = <<>>
    /\ page_size = 1

NextScheme == \E fpath \in SchemePaths : CanHandleFile(fpath)

SpecScheme == InitScheme /\ [][NextScheme]_vars

\* ------------------------------------------------------------------------
\* Properties of the scheme specification
\* ------------------------------------------------------------------------
StartsWith(s, t) == Len(s) >= Len(t) /\ \A i \in 1..Len(t) : s[i] = t[i]

\* C11: CanHandleFile returns true exactly for the paths that start with
\* azure:// or with az://; the product of two not-found positions, taken in
\* the machine word, is not zero.
C11_CanHandleFileIffScheme ==
    ret.op = "CanHandleFile" =>
        /\ (ret.value = 1) <=>
              (StartsWith(ret.path, AzurePrefix) \/ StartsWith(ret.path, AzPrefix))
        /\ MulIdx(Npos, Npos) # 0

C11_Witness ==
    /\ ret.op = "CanHandleFile"
    /\ ret.value = 0
    /\ ret.path = <<"x", "az", "://">>
    /\ RFind(ret.path, AzurePrefix, 0) = Npos
    /\ RFind(ret.path, AzPrefix, 0) = Npos

\* ------------------------------------------------------------------------
\* Properties of the read paths
\* ------------------------------------------------------------------------
\* C12: on a buffered handle a positional read of more bytes than the buffer
\* size sends exactly one request, for the range asked [location,
\* location + nr_bytes), into the caller's buffer: nothing comes out of the
\* read-ahead buffer and nothing is fetched into it.
C12_OversizeReadBypassesBuffer ==
    (BufferedRead /\ ret.op = "ReadAt" /\ ret.nr_bytes > hfh.read_options.buffer_size) =>
        ret.calls = <<DownloadToRequest(ret.location, ret.nr_bytes, "buffer")>>

\* A DownloadTo into the read-ahead buffer.
IsRefill(c) == c.kind = "DownloadTo" /\ c.dest = "read_buffer"

\* C13: a buffered read whose range lies in the window it finds sends no
\* request; a refill asks for min(buffer size, length - offset) bytes, so it
\* ends within the blob; where the refill succeeds the window begins at the
\* offset asked for, and the window is never longer than the buffer size.
C13_FetchOnlyOnMiss ==
    [][(opened /\ FILE_FLAGS_DIRECT_IO \notin hfh.flags
            /\ ret'.op \in {"Read", "ReadAt"}) =>
          /\ (ret'.location >= hfh.buffer_start
                 /\ ret'.location + ret'.nr_bytes <= hfh.buffer_end)
                => ret'.calls = <<>>
          /\ \A i \in 1..Len(ret'.calls) :
                IsRefill(ret'.calls[i]) =>
                   /\ ret'.calls[i].offset + ret'.calls[i].len <= hfh.length
                   /\ ret'.calls[i].len
                         = MinValue(hfh.read_options.buffer_size,
                                    hfh.length - ret'.calls[i].offset)
                   /\ ret'.error = NoError => hfh'.buffer_start = ret'.calls[i].offset
          /\ hfh'.buffer_end - hfh'.buffer_start <= hfh.read_options.buffer_size]_vars

DirectRead ==
    /\ opened
    /\ FILE_FLAGS_DIRECT_IO \in hfh.flags

\* The one request of a read that bypasses the buffer.
DirectFetch(location, nr_bytes) == <<DownloadToRequest(location, nr_bytes, "buffer")>>

\* C14 as stated: on a direct-I/O handle every read sends one request for
\* [location, location + nr_bytes) into the caller's buffer, leaves the
\* read-ahead buffer as it was and, when it returns, leaves no byte
\* available and the file offset at location + nr_bytes.
C14_DirectIoAlwaysFetches ==
    [][(DirectRead /\ ret'.op \in {"Read", "ReadAt"}) =>
          /\ ret'.calls = DirectFetch(ret'.location, ret'.nr_bytes)
          /\ hfh'.read_buffer = hfh.read_buffer
          /\ ret'.error = NoError =>
                /\ hfh'.buffer_available = 0
                /\ hfh'.file_offset = ret'.location + ret'.nr_bytes]_vars

\* C14 amended: the same for every read of at least one byte; a read of no
\* byte sends no request, and it too leaves the read-ahead buffer as it
\* was, no byte available and the file offset at the location.
C14_DirectIoBypassesBuffer ==
    [][(DirectRead /\ ret'.op \in {"Read", "ReadAt"}) =>
          /\ ret'.calls = IF ret'.nr_bytes > 0
                          THEN DirectFetch(ret'.location, ret'.nr_bytes)
                          ELSE <<>>
          /\ hfh'.read_buffer = hfh.read_buffer
          /\ ret'.error = NoError =>
                /\ hfh'.buffer_available = 0
                /\ hfh'.file_offset = ret'.location + ret'.nr_bytes]_vars

C14_Witness ==
    /\ DirectRead
    /\ ret.op = "ReadAt"
    /\ Returned
    /\ ret.location = 1
    /\ ret.nr_bytes = 2
    /\ ret.out = <<2, 3>>
    /\ hfh.read_options.buffer_size = 2
    /\ hfh.file_offset = 3

\* ------------------------------------------------------------------------
\* The opener specification: OpenFile and Glob, with and without an opener
\* ------------------------------------------------------------------------
OpenerGlobPaths == {ShortUrl("c1", <<"a">>), ShortUrl("c1", <<"*">>),
                    FullUrl("acc1", "c1", <<"a", "*">>)}

InitOpener ==
    /\ InitCommon
    /\ blob \in Blobs
    /\ settings \in [azure_context_caching : BOOLEAN, azure_read_buffer_size : {MaxBuf}]
    /\ listing \in {<<>>, <<<<"a">>, <<"a", "b">>>>}
    /\ page_size = 1

NextOpener ==
    \/ \E path \in ReadPaths, flags \in FlagSets, opener \in Openers,
          outcome \in OutcomesNoData, fill \in Fills :
          OpenFile(path, flags, opener, outcome, fill)
    \/ \E path \in OpenerGlobPaths, opener \in Openers : Glob(path, opener)
    \/ GlobPageStep

SpecOpener == InitOpener /\ [][NextOpener]_vars

\* ------------------------------------------------------------------------
\* Properties of the opener specification
\* ------------------------------------------------------------------------
\* C15: an OpenFile without the write flag, and a Glob, called without an
\* opener throw InternalException, make no call (no parse, no registry
\* access, no request) and leave the registry, the handle and the listing
\* in progress as they were.  The step is the call's own: no listing is
\* waiting for its page when it is made.
C15_NoOpenerFailsFirst ==
    [][(/\ glob.pc = "idle"
        /\ ret'.opener = NullOpener
        /\ \/ ret'.op = "OpenFile" /\ FILE_FLAGS_WRITE \notin ret'.flags
           \/ ret'.op = "Glob") =>
          /\ ret'.error = InternalException
          /\ ret'.calls = <<>>
          /\ UNCHANGED <<registered_state, next_id, opened, hfh, glob>>]_vars

C15_Witness ==
    /\ ret.op = "Glob"
    /\ ret.opener = NullOpener
    /\ ret.error = InternalException
    /\ ret.path = ShortUrl("c1", <<"*">>)
    /\ registered_state[<<>>] # NoContext
    /\ opened

\* ------------------------------------------------------------------------
\* Further properties of the handle specification
\* ------------------------------------------------------------------------
\* The blob is there, not empty, and the service did not refuse the open.
ReadableNonEmpty ==
    /\ blob.exists
    /\ Len(blob.data) # 0
    /\ ret.inner.kind # "IOException"

\* C16: FileExists returns true exactly for a blob that exists, that the
\* service lets the caller read, and that is not empty.
C16_FileExistsIffReadableNonEmpty ==
    ret.op = "FileExists" => ((ret.value = 1) <=> ReadableNonEmpty)

\* The bytes of the blob from an offset on, none at or past its end.
Remaining(length, offset) == IF offset >= length THEN 0 ELSE length - offset

\* C17: the sequential Read returns min(n, bytes that remain), 0 at or past
\* the end of the blob; it reads from the file offset, moves the file offset
\* on by the count it returns, does not take it past the end of the blob from
\* within it, and asks the service for no byte past the end of the blob.
C17_SequentialReadStopsAtEnd ==
    (opened /\ ret.op = "Read") =>
        /\ ret.value = MinValue(Len(ret.out), Remaining(hfh.length, ret.location))
        /\ ret.location <= hfh.length => ret.location + ret.value <= hfh.length
        /\ Returned => hfh.file_offset = ret.location + ret.value
        /\ \A i \in 1..Len(ret.calls) :
              ret.calls[i].offset + ret.calls[i].len <= hfh.length

\* The handle after an open, a read or a seek that returned.
HandleAtRest ==
    /\ opened
    /\ ret.op \in {"OpenFile", "Read", "ReadAt", "Seek"}
    /\ Returned

\* The bytes the window describes are the blob's.
WindowHoldsBlobBytes(h) ==
    SubSeq(h.read_buffer, 1, h.buffer_end - h.buffer_start)
        = SubSeq(blob.data, h.buffer_start + 1, h.buffer_end)

\* The assertion before each copy holds in every read the handle may be
\* asked for next.
AssertHoldsInEveryRead(h) ==
    FILE_FLAGS_READ \in h.flags =>
        \A nr_bytes \in Counts, location \in Locations, outcome \in Outcomes :
            ReadLocation(h, CallerBuffer(nr_bytes), nr_bytes, location, outcome).assert_ok

\* C18: on a handle at rest the window is well formed and no longer than
\* the buffer size, the cursor and the available count lie within it, the
\* buffer holds the blob's bytes of the window, and so the assertion before
\* each copy out of the buffer holds.
C18_WindowInvariant ==
    HandleAtRest =>
        /\ hfh.buffer_start <= hfh.buffer_end
        /\ hfh.buffer_end - hfh.buffer_start <= hfh.read_options.buffer_size
        /\ hfh.buffer_idx + hfh.buffer_available <= hfh.buffer_end - hfh.buffer_start
        /\ WindowHoldsBlobBytes(hfh)
        /\ AssertHoldsInEveryRead(hfh)

DownloadToCalls(calls) == SelectSeq(calls, LAMBDA c : c.kind = "DownloadTo")

\* C19: a read whose fetch fails has sent that one request and no other,
\* and leaves a window whose bytes in the buffer are still the blob's.
C19_FailedFetchLeavesHandleConsistent ==
    (opened /\ ret.op \in {"Read", "ReadAt"} /\ Threw) =>
        /\ Len(DownloadToCalls(ret.calls)) = 1
        /\ WindowHoldsBlobBytes(hfh)

\* ------------------------------------------------------------------------
\* Further properties of the context specification
\* ------------------------------------------------------------------------
\* The context the last access handed out, caching enabled: the registry's
\* entry for the account name of its path.
HandedOut == registered_state[ParseUrl(ret.path).storage_account_name]

CachedAccess ==
    /\ ret.op = "GetOrCreateStorageContext"
    /\ settings.azure_context_caching
    /\ HandedOut.id = ret.value

\* C20: the context an access gets with caching enabled has the account
\* connection and the read options of the context CreateStorageContext
\* builds for the same path.
C20_CachingIsTransparent ==
    CachedAccess =>
        /\ HandedOut.conn
              = CreateStorageContext(SessionOpener, ret.path, ParseUrl(ret.path), 0).conn
        /\ HandedOut.read_options
              = CreateStorageContext(SessionOpener, ret.path, ParseUrl(ret.path), 0).read_options

====
